---- MODULE Spec2Model ----
(***************************************************************************)
(* Model of the lead processor: the batch loop of runProcessCommand, the   *)
(* reconciliation engine LeadProcessor.ProcessLead, the lead validator and *)
(* comparator, and the HTTP client's LookupLead with its rate-limit retry  *)
(* protocol (handleRateLimit).                                             *)
(*                                                                         *)
(* Go strings that the code inspects character by character (name, email,  *)
(* company) are sequences of one-character strings.  A Go pointer is a     *)
(* sequence of length at most one: Nil is the nil pointer, Ptr(x) points   *)
(* to x.  An error value is a pointer to its message.                      *)
(***************************************************************************)
EXTENDS Integers, Sequences, FiniteSets, TLC

VARIABLES apiClient, leads, i, pc, createCount, updateCount, skipCount,
          errorCount, result, err, calls, lookupRet, mutationRet, attempt,
          trace, sleeps, serverLeads, outcomes, summary, csvFile, runErr

vars == <<apiClient, leads, i, pc, createCount, updateCount, skipCount,
          errorCount, result, err, calls, lookupRet, mutationRet, attempt,
          trace, sleeps, serverLeads, outcomes, summary, csvFile, runErr>>

(***************************************************************************)
(* Bounds                                                                  *)
(***************************************************************************)
MaxLeads == 2

\* The largest number of data rows of a source file that is read.
MaxRows == 2

(***************************************************************************)
(* Pointers                                                                *)
(***************************************************************************)
Nil == <<>>

Ptr(x) == <<x>>

Deref(p) == p[1]

(***************************************************************************)
(* Strings                                                                 *)
(***************************************************************************)
Letters == {"a", "b", "c", "o", "z", "A", "B", "X", "Q", "Z"}

Digits == {"0", "1"}

Spaces == {" ", "\t"}

RECURSIVE TrimLeft(_)
TrimLeft(s) == IF s # <<>> /\ Head(s) \in Spaces THEN TrimLeft(Tail(s)) ELSE s

RECURSIVE TrimRight(_)
TrimRight(s) ==
    IF s # <<>> /\ s[Len(s)] \in Spaces
    THEN TrimRight(SubSeq(s, 1, Len(s) - 1))
    ELSE s

TrimSpace(s) == TrimRight(TrimLeft(s))

DigitStr == <<"0", "1", "2", "3", "4", "5", "6", "7", "8", "9">>

RECURSIVE Itoa(_)
Itoa(n) == IF n < 10 THEN DigitStr[n + 1]
           ELSE Itoa(n \div 10) \o DigitStr[(n % 10) + 1]

RECURSIVE Join(_, _)
Join(elems, sep) ==
    IF elems = <<>> THEN ""
    ELSE IF Len(elems) = 1 THEN elems[1]
    ELSE elems[1] \o sep \o Join(Tail(elems), sep)

(***************************************************************************)
(* models.Lead: validation and comparison                                  *)
(***************************************************************************)
GetValidSources ==
    <<"LinkedIn", "Website", "Conference", "Referral", "Webinar", "Twitter">>

isValidSource(source) ==
    \E k \in 1..Len(GetValidSources) : source = GetValidSources[k]

\* ^[a-zA-Z0-9._%+-]+@[a-zA-Z0-9.-]+\.[a-zA-Z]{2,}$
emailRegexMatch(s) ==
    \E at \in 1..Len(s) : \E dot \in 1..Len(s) :
        /\ at >= 2
        /\ \A k \in 1..(at - 1) :
              s[k] \in Letters \cup Digits \cup {".", "_", "%", "+", "-"}
        /\ s[at] = "@"
        /\ dot >= at + 2
        /\ \A k \in (at + 1)..(dot - 1) :
              s[k] \in Letters \cup Digits \cup {".", "-"}
        /\ s[dot] = "."
        /\ Len(s) - dot >= 2
        /\ \A k \in (dot + 1)..Len(s) : s[k] \in Letters

isValidEmail(email) ==
    IF TrimSpace(email) = <<>> THEN FALSE ELSE emailRegexMatch(email)

\* validationErrors that stops at the first violated rule.
validationErrors_FailFast(l) ==
    IF TrimSpace(l.Name) = <<>> THEN <<"name is required">>
    ELSE IF ~isValidEmail(l.Email) THEN <<"valid email is required">>
    ELSE IF TrimSpace(l.Company) = <<>> THEN <<"company is required">>
    ELSE IF ~isValidSource(l.Source)
    THEN <<"source must be one of: " \o Join(GetValidSources, ", ")>>
    ELSE <<>>

validationErrors(l) ==
    (IF TrimSpace(l.Name) = <<>> THEN <<"name is required">> ELSE <<>>)
    \o (IF ~isValidEmail(l.Email) THEN <<"valid email is required">> ELSE <<>>)
    \o (IF TrimSpace(l.Company) = <<>> THEN <<"company is required">> ELSE <<>>)
    \o (IF ~isValidSource(l.Source)
        THEN <<"source must be one of: " \o Join(GetValidSources, ", ")>>
        ELSE <<>>)

\* Validate without the email rule.
Validate_NoEmailRule(l) ==
    LET errs == (IF TrimSpace(l.Name) = <<>> THEN <<"name is required">> ELSE <<>>)
                \o (IF TrimSpace(l.Company) = <<>>
                    THEN <<"company is required">> ELSE <<>>)
                \o (IF ~isValidSource(l.Source)
                    THEN <<"source must be one of: " \o Join(GetValidSources, ", ")>>
                    ELSE <<>>)
    IN  IF Len(errs) > 0 THEN Ptr(Join(errs, "; ")) ELSE Nil

Validate(l) ==
    IF Len(validationErrors(l)) > 0
    THEN Ptr(Join(validationErrors(l), "; "))
    ELSE Nil

\* IsEqual that also compares the ID.
IsEqual_WithID(l, other) ==
    IF other = Nil THEN FALSE
    ELSE /\ l.ID = Deref(other).ID
         /\ l.Name = Deref(other).Name
         /\ l.Email = Deref(other).Email
         /\ l.Company = Deref(other).Company
         /\ l.Source = Deref(other).Source

\* IsEqual that forgets the source.
IsEqual_NoSource(l, other) ==
    IF other = Nil THEN FALSE
    ELSE /\ l.Name = Deref(other).Name
         /\ l.Email = Deref(other).Email
         /\ l.Company = Deref(other).Company

\* IsEqual that also compares the time of the last update.
IsEqual_WithUpdatedAt(l, other) ==
    IF other = Nil THEN FALSE
    ELSE /\ l.Name = Deref(other).Name
         /\ l.Email = Deref(other).Email
         /\ l.Company = Deref(other).Company
         /\ l.Source = Deref(other).Source
         /\ l.UpdatedAt = Deref(other).UpdatedAt

\* IsEqual that takes an absent counterpart for an equal one.
IsEqual_NilIsEqual(l, other) ==
    IF other = Nil THEN TRUE
    ELSE /\ l.Name = Deref(other).Name
         /\ l.Email = Deref(other).Email
         /\ l.Company = Deref(other).Company
         /\ l.Source = Deref(other).Source

IsEqual(l, other) ==
    IF other = Nil THEN FALSE
    ELSE /\ l.Name = Deref(other).Name
         /\ l.Email = Deref(other).Email
         /\ l.Company = Deref(other).Company
         /\ l.Source = Deref(other).Source

NewLead(id, name, email, company, source) ==
    [ID |-> id, Name |-> name, Email |-> email, Company |-> company,
     Source |-> source, CreatedAt |-> "t-read", UpdatedAt |-> Nil]

(***************************************************************************)
(* The input batch: the rows a lead source can hold                        *)
(***************************************************************************)
EmailAB == <<"a", "@", "b", ".", "c", "o">>

Rows ==
    { <<(<<"A">>), EmailAB, (<<"X">>), "LinkedIn">>,
      <<(<<"B">>), EmailAB, (<<"X">>), "Webinar">>,
      <<(<<"A">>), (<<"a", "-", "b">>), (<<"X">>), "LinkedIn">>,
      <<(<<" ">>), (<<>>), (<<"\t", " ">>), "linkedin">>,
      <<(<<" ", "A">>), (<<"a", "1", "@", "b", "-", "c", ".", "c">>),
        (<<"X">>), "Twitter">> }

LeadOfRow(k, row) ==
    NewLead("uuid-" \o Itoa(k), row[1], row[2], row[3], row[4])

Batches ==
    UNION { { [k \in 1..n |-> LeadOfRow(k, rows[k])] : rows \in [1..n -> Rows] }
            : n \in 0..MaxLeads }

(***************************************************************************)
(* The source file and CSVReader.ReadLeads                                 *)
(*                                                                         *)
(* A file is given by whether os.Open succeeds, whether its text is        *)
(* well-formed CSV, and the records encoding/csv parses from it (blank     *)
(* lines are no records).                                                  *)
(***************************************************************************)
Header == <<(<<"n">>), (<<"e">>), (<<"c">>), "source">>

\* The first row of a file: a header of 4, 3 or 5 columns, or a data row
\* when the file has no header.
FirstRecords ==
    { Header,
      <<(<<"n">>), (<<"e">>), (<<"c">>)>>,
      Header \o <<"notes">>,
      <<(<<"A">>), EmailAB, (<<"X">>), "LinkedIn">> }

\* The data rows of a file: a valid row and an invalid one, each also cut
\* to 3 fields and extended to 5.
DataRecords ==
    LET full == { <<(<<"A">>), EmailAB, (<<"X">>), "LinkedIn">>,
                  <<(<<" ">>), (<<>>), (<<"\t", " ">>), "linkedin">> }
    IN  full \cup { SubSeq(r, 1, 3) : r \in full } \cup { r \o <<"x">> : r \in full }

Files ==
    { [exists |-> FALSE, wellFormed |-> TRUE, records |-> <<>>],
      [exists |-> TRUE, wellFormed |-> FALSE, records |-> <<>>],
      [exists |-> TRUE, wellFormed |-> TRUE, records |-> <<>>] }
    \cup
    UNION { { [exists |-> TRUE, wellFormed |-> TRUE,
               records |-> <<h>> \o [k \in 1..n |-> rows[k]]] :
                h \in FirstRecords, rows \in [1..n -> DataRecords] }
            : n \in 0..MaxRows }

\* The file that holds the leads ls under the four-column header.
FileOf(ls) ==
    [exists |-> TRUE, wellFormed |-> TRUE,
     records |-> <<Header>> \o [k \in 1..Len(ls) |->
                    <<ls[k].Name, ls[k].Email, ls[k].Company, ls[k].Source>>]]

\* encoding/csv Reader.ReadAll with the settings of csv.NewReader:
\* FieldsPerRecord is 0, so every record must have as many fields as the
\* first one.
csvReadAll(f) ==
    IF ~f.wellFormed
    THEN [records |-> <<>>, err |-> Ptr("parse error on line 1: bare \" in non-quoted-field")]
    ELSE LET wrong == { k \in 2..Len(f.records) :
                          Len(f.records[k]) # Len(f.records[1]) }
         IN  IF wrong # {}
             THEN [records |-> <<>>,
                   err |-> Ptr("record on line "
                               \o Itoa(CHOOSE k \in wrong : \A j \in wrong : k <= j)
                               \o ": wrong number of fields")]
             ELSE [records |-> f.records, err |-> Nil]

\* LeadsOfRecords that takes the first row for a data row.
LeadsOfRecords_NoHeaderSkip(records) ==
    LET kept == SelectSeq(records, LAMBDA r : Len(r) >= 4)
    IN  [k \in 1..Len(kept) |-> LeadOfRow(k, kept[k])]

\* The loop of ReadLeads over the records.
LeadsOfRecords(records) ==
    LET kept == SelectSeq(IF records = <<>> THEN <<>> ELSE Tail(records),
                          LAMBDA r : Len(r) >= 4)
    IN  [k \in 1..Len(kept) |-> LeadOfRow(k, kept[k])]

ReadLeads(f) ==
    IF ~f.exists
    THEN [leads |-> <<>>, err |-> Ptr("open leads.csv: no such file or directory")]
    ELSE IF csvReadAll(f).err # Nil
    THEN [leads |-> <<>>, err |-> csvReadAll(f).err]
    ELSE [leads |-> LeadsOfRecords(csvReadAll(f).records), err |-> Nil]

(***************************************************************************)
(* processor.ProcessResult and the values a client returns                 *)
(***************************************************************************)
ProcessResult(action, lead, created, updated, error) ==
    [Action |-> action, Lead |-> lead, CreatedLead |-> created,
     UpdatedLead |-> updated, Error |-> error]

NoReturn == [resp |-> Nil, err |-> Nil]

NoMutation == [lead |-> Nil, err |-> Nil]

Other(v, a, b) == IF v = a THEN b ELSE a

\* The records a remote system may hold for the lead l: one that is
\* business-equal to l, and one differing from l in each single field.
RemoteVariants(l) ==
    LET same == [ID |-> "srv-1", Name |-> l.Name, Email |-> l.Email,
                 Company |-> l.Company, Source |-> l.Source,
                 CreatedAt |-> "t-remote", UpdatedAt |-> Nil]
    IN  { same,
          [same EXCEPT !.UpdatedAt = Ptr("t-remote-upd")],
          [same EXCEPT !.Name = Other(l.Name, <<"Z">>, <<"Q">>)],
          [same EXCEPT !.Email = <<"z">> \o l.Email],
          [same EXCEPT !.Company = Other(l.Company, <<"Q">>, <<"Z">>)],
          [same EXCEPT !.Source = Other(l.Source, "Website", "Referral")] }

(***************************************************************************)
(* MockAPIClient (processor_test.go): an arbitrary implementation of the   *)
(* processor.APIClient interface.  A call returns an error, or a non-nil   *)
(* response, or both.                                                      *)
(***************************************************************************)
MockLookupResults(l) ==
    { [resp |-> Nil, err |-> Ptr("lookup failed")] }
    \cup
    { [resp |-> Ptr([Found |-> TRUE, Lead |-> Nil]), err |-> Ptr("lookup failed")] }
    \cup
    { [resp |-> Ptr([Found |-> f, Lead |-> x]), err |-> Nil] :
        f \in BOOLEAN, x \in {Nil} \cup { Ptr(v) : v \in RemoteVariants(l) } }

MockMutationResults(l) ==
    LET stored == [l EXCEPT !.ID = "srv-2", !.UpdatedAt = Ptr("t-now")]
    IN  { [lead |-> Nil, err |-> Ptr("mutation failed")],
          [lead |-> Ptr(stored), err |-> Ptr("mutation failed")],
          [lead |-> Ptr(stored), err |-> Nil],
          [lead |-> Nil, err |-> Nil] }

(***************************************************************************)
(* api.APIClient: what one HTTP GET of /api/leads/lookup can produce       *)
(***************************************************************************)
maxRetries == 3

baseDelay == 100

StatusOK == 200

StatusTooManyRequests == 429

EmptyBody == [wellFormed |-> FALSE, found |-> "absent", lead |-> Nil]

\* The LeadDTO the remote system sends for a stored record.
DTOOf(v) ==
    [id |-> v.ID, name |-> v.Name, email |-> v.Email, company |-> v.Company,
     source |-> v.Source, createdAt |-> v.CreatedAt, updatedAt |-> v.UpdatedAt]

LookupBodies(l) ==
    { EmptyBody,
      [wellFormed |-> TRUE, found |-> "absent", lead |-> Nil],
      [wellFormed |-> TRUE, found |-> "false", lead |-> Nil],
      [wellFormed |-> TRUE, found |-> "true", lead |-> Nil] }
    \cup
    { [wellFormed |-> TRUE, found |-> "true", lead |-> Ptr(DTOOf(v))] :
        v \in RemoteVariants(l) }

NetErrors ==
    { [msg |-> "dial tcp: connection refused", Timeout |-> FALSE,
       saysTimeout |-> FALSE],
      [msg |-> "context deadline exceeded", Timeout |-> TRUE,
       saysTimeout |-> FALSE],
      [msg |-> "i/o timeout", Timeout |-> FALSE, saysTimeout |-> TRUE] }

Statuses == {StatusOK, 201, 400, StatusTooManyRequests, 500}

\* server.js: the contents the in-memory store `leads` may start with, one
\* record at most, held under the email of the valid rows.
Stores ==
    LET l == LeadOfRow(1, <<(<<"A">>), EmailAB, (<<"X">>), "LinkedIn">>)
        same == [ID |-> "srv-1", Name |-> l.Name, Email |-> l.Email,
                 Company |-> l.Company, Source |-> l.Source,
                 CreatedAt |-> "t-remote", UpdatedAt |-> Nil]
    IN  { {}, {same} }

\* server.js GET /api/leads/lookup answers {found: true, lead} exactly when
\* the store holds a record under the email and {found: false} exactly when
\* it holds none; any other body is a damaged or foreign response.
ServerSends(b, email) ==
    IF b.wellFormed /\ b.found = "true" /\ b.lead # Nil
    THEN \E v \in serverLeads : v.Email = email /\ b.lead = Ptr(DTOOf(v))
    ELSE IF b.wellFormed /\ b.found = "false"
    THEN \A v \in serverLeads : v.Email # email
    ELSE TRUE

\* server.js GET /api/leads/lookup: the bodies that carry a stored record.
StoreBodies ==
    { [wellFormed |-> TRUE, found |-> "true", lead |-> Ptr(DTOOf(v))] :
        v \in serverLeads }

\* The outcomes of httpClient.Get: a transport error, or a response.
HTTPOutcomes(l) ==
    { [netErr |-> Ptr(e), StatusCode |-> 0, Body |-> EmptyBody] : e \in NetErrors }
    \cup
    { [netErr |-> Nil, StatusCode |-> c, Body |-> EmptyBody] :
        c \in Statuses \ {StatusOK} }
    \cup
    { [netErr |-> Nil, StatusCode |-> StatusOK, Body |-> b] :
        b \in { x \in LookupBodies(l) \cup StoreBodies : ServerSends(x, l.Email) } }

isTimeoutError(e) ==
    IF e = Nil THEN FALSE
    ELSE IF Deref(e).Timeout THEN TRUE
    ELSE IF Deref(e).saysTimeout THEN TRUE
    ELSE FALSE

\* json.NewDecoder(resp.Body).Decode(&lookupResp) into api.LookupResponse:
\* an absent "found" leaves false, an absent "lead" leaves nil, and api.Lead
\* has no field for "updatedAt".
Decode(body) ==
    IF ~body.wellFormed
    THEN [resp |-> Nil, err |-> Ptr("invalid character")]
    ELSE [resp |-> Ptr([Found |-> (body.found = "true"),
                        Lead |-> IF body.lead = Nil THEN Nil
                                 ELSE LET d == Deref(body.lead)
                                      IN Ptr([ID |-> d.id, Name |-> d.name,
                                              Email |-> d.email,
                                              Company |-> d.company,
                                              Source |-> d.source,
                                              CreatedAt |-> d.createdAt])]),
          err |-> Nil]

DecodeBody(body) ==
    IF Decode(body).err # Nil
    THEN [resp |-> Nil,
          err |-> Ptr("failed to decode response: " \o Deref(Decode(body).err))]
    ELSE [resp |-> Decode(body).resp, err |-> Nil]

convertAPIToProcessorLead(apiLead) ==
    IF apiLead = Nil THEN Nil
    ELSE LET a == Deref(apiLead)
         IN Ptr([ID |-> a.ID, Name |-> a.Name, Email |-> a.Email,
                 Company |-> a.Company, Source |-> a.Source,
                 CreatedAt |-> a.CreatedAt, UpdatedAt |-> Nil])

\* APIClientAdapter.LookupLead applied to what api.APIClient.LookupLead returned.
AdapterLookupLead(ret) ==
    IF ret.err # Nil THEN [resp |-> Nil, err |-> ret.err]
    ELSE [resp |-> Ptr([Found |-> Deref(ret.resp).Found,
                        Lead |-> convertAPIToProcessorLead(Deref(ret.resp).Lead)]),
          err |-> Nil]

\* LookupLeadFirst that takes every 2xx status for a success.
LookupLeadFirst_Any2xx(o) ==
    IF o.netErr # Nil
    THEN IF isTimeoutError(o.netErr)
         THEN [resp |-> Nil, err |-> Ptr("request timeout: " \o Deref(o.netErr).msg)]
         ELSE [resp |-> Nil,
               err |-> Ptr("failed to make request: " \o Deref(o.netErr).msg)]
    ELSE IF o.StatusCode \notin 200..299
    THEN [resp |-> Nil, err |-> Ptr("API returned status " \o Itoa(o.StatusCode))]
    ELSE DecodeBody(o.Body)

\* The part of api.APIClient.LookupLead after the first httpClient.Get, for
\* every outcome but 429.
LookupLeadFirst(o) ==
    IF o.netErr # Nil
    THEN IF isTimeoutError(o.netErr)
         THEN [resp |-> Nil, err |-> Ptr("request timeout: " \o Deref(o.netErr).msg)]
         ELSE [resp |-> Nil,
               err |-> Ptr("failed to make request: " \o Deref(o.netErr).msg)]
    ELSE IF o.StatusCode # StatusOK
    THEN [resp |-> Nil, err |-> Ptr("API returned status " \o Itoa(o.StatusCode))]
    ELSE DecodeBody(o.Body)

RECURSIVE Shl(_, _)
Shl(x, n) == IF n = 0 THEN x ELSE Shl(2 * x, n - 1)

\* A delay that grows linearly.
Delay_Linear(a) == baseDelay * (a + 1)

\* A delay that doubles from twice the base delay.
Delay_FromTwiceBase(a) == baseDelay * Shl(1, a + 1)

\* delay := baseDelay * time.Duration(1<<uint(attempt)), in milliseconds
Delay(a) == baseDelay * Shl(1, a)

\* APICreateLead of a client whose create is not implemented and says so.
APICreateLead_NotImplemented(l) ==
    [lead |-> Nil, err |-> Ptr("create lead: not implemented")]

\* api.APIClient.CreateLead and UpdateLead: no request is made.
APICreateLead(l) ==
    [lead |-> Ptr([ID |-> "generated-id", Name |-> l.Name, Email |-> l.Email,
                   Company |-> l.Company, Source |-> l.Source,
                   CreatedAt |-> "t-now", UpdatedAt |-> Nil]),
     err |-> Nil]

APIUpdateLead(l) ==
    [lead |-> Ptr([ID |-> l.ID, Name |-> l.Name, Email |-> l.Email,
                   Company |-> l.Company, Source |-> l.Source,
                   CreatedAt |-> l.CreatedAt, UpdatedAt |-> Ptr("t-now")]),
     err |-> Nil]

(***************************************************************************)
(* State machine                                                           *)
(*   pc = "loop"    head of the for loop of runProcessCommand              *)
(*        "lookup"  ProcessLead has called apiClient.LookupLead            *)
(*        "backoff" head of the retry loop of handleRateLimit              *)
(*        "retry"   handleRateLimit has slept and issues its request       *)
(*        "decide"  LookupLead has returned to ProcessLead                 *)
(*        "create"  ProcessLead has called apiClient.CreateLead            *)
(*        "update"  ProcessLead has called apiClient.UpdateLead            *)
(*        "tally"   ProcessLead has returned to runProcessCommand          *)
(*        "panic"   nil pointer dereference                                *)
(*        "done"    runProcessCommand has returned nil                     *)
(*        "read"    runProcessCommand is about to read the source          *)
(*        "exit"    runProcessCommand has returned an error (exit code 1)  *)
(* calls, trace and sleeps record, for the current ProcessLead call, the   *)
(* client operations called, the outcomes of the HTTP requests made and    *)
(* the delays slept.  outcomes records, for each lead processed so far,    *)
(* its outcome tag and its client calls; summary is what the command       *)
(* prints at the end.  serverLeads is the store of the remote system the   *)
(* production client talks to.                                             *)
(***************************************************************************)
Init ==
    /\ apiClient \in {"MockAPIClient", "APIClientAdapter"}
    /\ serverLeads \in (IF apiClient = "APIClientAdapter" THEN Stores ELSE {{}})
    /\ leads \in Batches
    /\ csvFile = FileOf(leads)
    /\ runErr = Nil
    /\ i = 1
    /\ pc = "loop"
    /\ createCount = 0
    /\ updateCount = 0
    /\ skipCount = 0
    /\ errorCount = 0
    /\ result = Nil
    /\ err = Nil
    /\ calls = <<>>
    /\ lookupRet = NoReturn
    /\ mutationRet = NoMutation
    /\ attempt = 0
    /\ trace = <<>>
    /\ sleeps = <<>>
    /\ outcomes = <<>>
    /\ summary = Nil

\* Return with a normalised copy of the input lead as the original lead.
Return_NormalisedLead(action, created, updated, error) ==
    /\ result' = Ptr(ProcessResult(action,
                                    Ptr([leads[i] EXCEPT !.Name = TrimSpace(@)]),
                                    created, updated, error))
    /\ err' = Nil
    /\ pc' = "tally"

Return(action, created, updated, error) ==
    /\ result' = Ptr(ProcessResult(action, Ptr(leads[i]), created, updated, error))
    /\ err' = Nil
    /\ pc' = "tally"

\* The loop body up to the call of LookupLead: ProcessLead validates.
ProcessLeadValidate ==
    /\ pc = "loop"
    /\ i <= Len(leads)
    /\ lookupRet' = NoReturn
    /\ mutationRet' = NoMutation
    /\ attempt' = 0
    /\ trace' = <<>>
    /\ sleeps' = <<>>
    /\ IF Validate(leads[i]) # Nil
       THEN /\ Return("VALIDATION_ERROR", Nil, Nil, Validate(leads[i]))
            /\ calls' = <<>>
       ELSE /\ calls' = <<"LookupLead">>
            /\ result' = Nil
            /\ err' = Nil
            /\ pc' = "lookup"
    /\ UNCHANGED <<csvFile, runErr, apiClient, serverLeads, outcomes, summary, leads, i,
                   createCount, updateCount, skipCount,
                   errorCount>>

MockLookupLead ==
    /\ pc = "lookup"
    /\ apiClient = "MockAPIClient"
    /\ \E r \in MockLookupResults(leads[i]) : lookupRet' = r
    /\ pc' = "decide"
    /\ UNCHANGED <<csvFile, runErr, apiClient, serverLeads, outcomes, summary, leads, i,
                   createCount, updateCount, skipCount,
                   errorCount, result, err, calls, mutationRet, attempt, trace,
                   sleeps>>

\* Every status but 200 starts the retry protocol.
StartsRetry_AnyNon200(o) == o.netErr = Nil /\ o.StatusCode # StatusOK

\* if resp.StatusCode == http.StatusTooManyRequests
StartsRetry(o) == o.netErr = Nil /\ o.StatusCode = StatusTooManyRequests

\* api.APIClient.LookupLead: the first request.
LookupLead ==
    /\ pc = "lookup"
    /\ apiClient = "APIClientAdapter"
    /\ \E o \in HTTPOutcomes(leads[i]) :
        /\ trace' = Append(trace, o)
        /\ IF StartsRetry(o)
           THEN /\ pc' = "backoff"
                /\ attempt' = 0
                /\ UNCHANGED lookupRet
           ELSE /\ lookupRet' = AdapterLookupLead(LookupLeadFirst(o))
                /\ pc' = "decide"
                /\ UNCHANGED attempt
    /\ UNCHANGED <<csvFile, runErr, apiClient, serverLeads, outcomes, summary, leads, i,
                   createCount, updateCount, skipCount,
                   errorCount, result, err, calls, mutationRet, sleeps>>

\* handleRateLimitSleep that lets the loop go on with the next lead while the
\* delay of this lead's lookup passes.
handleRateLimitSleep_YieldsToNextLead ==
    /\ pc = "backoff"
    /\ IF attempt < maxRetries
       THEN /\ sleeps' = Append(sleeps, Delay(attempt))
            /\ pc' = IF i < Len(leads) THEN "loop" ELSE "retry"
            /\ i' = IF i < Len(leads) THEN i + 1 ELSE i
            /\ UNCHANGED lookupRet
       ELSE /\ lookupRet' = AdapterLookupLead(
                   [resp |-> Nil,
                    err |-> Ptr("max retries exceeded for rate limiting")])
            /\ pc' = "decide"
            /\ UNCHANGED <<sleeps, i>>
    /\ UNCHANGED <<csvFile, runErr, apiClient, serverLeads, outcomes, summary, leads,
                   createCount, updateCount, skipCount,
                   errorCount, result, err, calls, mutationRet, attempt, trace>>

\* handleRateLimit: the loop condition and time.Sleep(delay).
handleRateLimitSleep ==
    /\ pc = "backoff"
    /\ IF attempt < maxRetries
       THEN /\ sleeps' = Append(sleeps, Delay(attempt))
            /\ pc' = "retry"
            /\ UNCHANGED lookupRet
       ELSE /\ lookupRet' = AdapterLookupLead(
                   [resp |-> Nil,
                    err |-> Ptr("max retries exceeded for rate limiting")])
            /\ pc' = "decide"
            /\ UNCHANGED sleeps
    /\ UNCHANGED <<csvFile, runErr, apiClient, serverLeads, outcomes, summary, leads, i,
                   createCount, updateCount, skipCount,
                   errorCount, result, err, calls, mutationRet, attempt, trace>>

\* A retry loop that leaves the loop on 200 instead of returning the result.
RetryStep_BreakOn200(o, a) ==
    IF o.netErr # Nil
    THEN IF a = maxRetries - 1
         THEN [continue |-> FALSE,
               ret |-> [resp |-> Nil,
                        err |-> Ptr("failed after " \o Itoa(maxRetries)
                                    \o " retries: " \o Deref(o.netErr).msg)]]
         ELSE [continue |-> TRUE, ret |-> NoReturn]
    ELSE IF o.StatusCode = StatusOK
    THEN [continue |-> FALSE,
          ret |-> [resp |-> Nil,
                   err |-> Ptr("max retries exceeded for rate limiting")]]
    ELSE IF o.StatusCode = StatusTooManyRequests /\ a < maxRetries - 1
    THEN [continue |-> TRUE, ret |-> NoReturn]
    ELSE [continue |-> FALSE,
          ret |-> [resp |-> Nil,
                   err |-> Ptr("API returned status " \o Itoa(o.StatusCode)
                               \o " after " \o Itoa(a + 1) \o " retries")]]

\* A retry loop that returns a transport error of any retry at once.
RetryStep_NetErrReturns(o, a) ==
    IF o.netErr # Nil
    THEN [continue |-> FALSE,
          ret |-> [resp |-> Nil,
                   err |-> Ptr("failed after " \o Itoa(maxRetries)
                               \o " retries: " \o Deref(o.netErr).msg)]]
    ELSE IF o.StatusCode = StatusOK
    THEN [continue |-> FALSE, ret |-> DecodeBody(o.Body)]
    ELSE IF o.StatusCode = StatusTooManyRequests /\ a < maxRetries - 1
    THEN [continue |-> TRUE, ret |-> NoReturn]
    ELSE [continue |-> FALSE,
          ret |-> [resp |-> Nil,
                   err |-> Ptr("API returned status " \o Itoa(o.StatusCode)
                               \o " after " \o Itoa(a + 1) \o " retries")]]

\* A retry loop that goes on after a 429 on the last retry as on any other.
RetryStep_ContinuesOnLast429(o, a) ==
    IF o.netErr # Nil
    THEN IF a = maxRetries - 1
         THEN [continue |-> FALSE,
               ret |-> [resp |-> Nil,
                        err |-> Ptr("failed after " \o Itoa(maxRetries)
                                    \o " retries: " \o Deref(o.netErr).msg)]]
         ELSE [continue |-> TRUE, ret |-> NoReturn]
    ELSE IF o.StatusCode = StatusOK
    THEN [continue |-> FALSE, ret |-> DecodeBody(o.Body)]
    ELSE IF o.StatusCode = StatusTooManyRequests
    THEN [continue |-> TRUE, ret |-> NoReturn]
    ELSE [continue |-> FALSE,
          ret |-> [resp |-> Nil,
                   err |-> Ptr("API returned status " \o Itoa(o.StatusCode)
                               \o " after " \o Itoa(a + 1) \o " retries")]]

\* What one retry request of handleRateLimit leads to: "continue" or a return.
RetryStep(o, a) ==
    IF o.netErr # Nil
    THEN IF a = maxRetries - 1
         THEN [continue |-> FALSE,
               ret |-> [resp |-> Nil,
                        err |-> Ptr("failed after " \o Itoa(maxRetries)
                                    \o " retries: " \o Deref(o.netErr).msg)]]
         ELSE [continue |-> TRUE, ret |-> NoReturn]
    ELSE IF o.StatusCode = StatusOK
    THEN [continue |-> FALSE, ret |-> DecodeBody(o.Body)]
    ELSE IF o.StatusCode = StatusTooManyRequests /\ a < maxRetries - 1
    THEN [continue |-> TRUE, ret |-> NoReturn]
    ELSE [continue |-> FALSE,
          ret |-> [resp |-> Nil,
                   err |-> Ptr("API returned status " \o Itoa(o.StatusCode)
                               \o " after " \o Itoa(a + 1) \o " retries")]]

\* handleRateLimit: the retry request and what follows it in the loop body.
handleRateLimitRetry ==
    /\ pc = "retry"
    /\ \E o \in HTTPOutcomes(leads[i]) :
        /\ trace' = Append(trace, o)
        /\ IF RetryStep(o, attempt).continue
           THEN /\ attempt' = attempt + 1
                /\ pc' = "backoff"
                /\ UNCHANGED lookupRet
           ELSE /\ lookupRet' = AdapterLookupLead(RetryStep(o, attempt).ret)
                /\ pc' = "decide"
                /\ UNCHANGED attempt
    /\ UNCHANGED <<csvFile, runErr, apiClient, serverLeads, outcomes, summary, leads, i,
                   createCount, updateCount, skipCount,
                   errorCount, result, err, calls, mutationRet, sleeps>>

\* Decide that compares before it looks at Found.
Decide_EqualBeforeFound(l, ret) ==
    IF ret.err # Nil THEN "API_ERROR"
    ELSE IF ret.resp = Nil THEN "panic"
    ELSE IF IsEqual(l, Deref(ret.resp).Lead) THEN "SKIP"
    ELSE IF ~Deref(ret.resp).Found THEN "create"
    ELSE "update"

\* Decide that looks at the error only when there is no response.
Decide_ResponseBeforeError(l, ret) ==
    IF ret.resp = Nil /\ ret.err # Nil THEN "API_ERROR"
    ELSE IF ret.resp = Nil THEN "panic"
    ELSE IF ~Deref(ret.resp).Found THEN "create"
    ELSE IF IsEqual(l, Deref(ret.resp).Lead) THEN "SKIP"
    ELSE "update"

\* Decide that reads lookupResp.Found before it checks the error.
Decide_DerefBeforeError(l, ret) ==
    IF ret.resp = Nil THEN "panic"
    ELSE IF ret.err # Nil THEN "API_ERROR"
    ELSE IF ~Deref(ret.resp).Found THEN "create"
    ELSE IF IsEqual(l, Deref(ret.resp).Lead) THEN "SKIP"
    ELSE "update"

\* Decide by a processor that remembers the emails it has created: a lead
\* reported as not found is skipped when an earlier lead of the batch with
\* its email was created.
Decide_RemembersCreated(l, ret) ==
    IF ret.err # Nil THEN "API_ERROR"
    ELSE IF ret.resp = Nil THEN "panic"
    ELSE IF ~Deref(ret.resp).Found
    THEN IF \E j \in 1..Len(outcomes) :
                leads[j].Email = l.Email /\ outcomes[j].Action = "CREATE"
         THEN "SKIP" ELSE "create"
    ELSE IF IsEqual(l, Deref(ret.resp).Lead) THEN "SKIP"
    ELSE "update"

\* The branch ProcessLead takes once LookupLead has returned ret for lead l.
Decide(l, ret) ==
    IF ret.err # Nil THEN "API_ERROR"
    ELSE IF ret.resp = Nil THEN "panic"
    ELSE IF ~Deref(ret.resp).Found THEN "create"
    ELSE IF IsEqual(l, Deref(ret.resp).Lead) THEN "SKIP"
    ELSE "update"

\* ProcessLead from the return of LookupLead to the next client call.
ProcessLeadDecide ==
    /\ pc = "decide"
    /\ LET d == Decide(leads[i], lookupRet)
       IN  IF d = "API_ERROR"
           THEN /\ Return("API_ERROR", Nil, Nil, lookupRet.err)
                /\ UNCHANGED calls
           ELSE IF d = "panic"
           THEN /\ pc' = "panic"
                /\ UNCHANGED <<result, err, calls>>
           ELSE IF d = "create"
           THEN /\ calls' = Append(calls, "CreateLead")
                /\ pc' = "create"
                /\ UNCHANGED <<result, err>>
           ELSE IF d = "SKIP"
           THEN /\ Return("SKIP", Nil, Nil, Nil)
                /\ UNCHANGED calls
           ELSE /\ calls' = Append(calls, "UpdateLead")
                /\ pc' = "update"
                /\ UNCHANGED <<result, err>>
    /\ UNCHANGED <<csvFile, runErr, apiClient, serverLeads, outcomes, summary, leads, i,
                   createCount, updateCount, skipCount,
                   errorCount, lookupRet, mutationRet, attempt, trace, sleeps>>

\* ProcessLeadCreated that passes on the lead the client returned together
\* with its error.
ProcessLeadCreated_KeepsLeadOnError(r) ==
    /\ mutationRet' = r
    /\ IF r.err # Nil
       THEN Return("CREATE_ERROR", r.lead, Nil, r.err)
       ELSE Return("CREATE", r.lead, Nil, Nil)
    /\ UNCHANGED <<csvFile, runErr, apiClient, serverLeads, outcomes, summary, leads, i,
                   createCount, updateCount, skipCount,
                   errorCount, calls, lookupRet, attempt, trace, sleeps>>

\* ProcessLead after CreateLead has returned r.
ProcessLeadCreated(r) ==
    /\ mutationRet' = r
    /\ IF r.err # Nil
       THEN Return("CREATE_ERROR", Nil, Nil, r.err)
       ELSE Return("CREATE", r.lead, Nil, Nil)
    /\ UNCHANGED <<csvFile, runErr, apiClient, serverLeads, outcomes, summary, leads, i,
                   createCount, updateCount, skipCount,
                   errorCount, calls, lookupRet, attempt, trace, sleeps>>

\* ProcessLeadUpdated that calls UpdateLead a second time when the first call
\* has failed.
ProcessLeadUpdated_RetriesOnce(r) ==
    /\ mutationRet' = r
    /\ IF r.err # Nil /\ Len(calls) = 2
       THEN /\ calls' = Append(calls, "UpdateLead")
            /\ pc' = "update"
            /\ UNCHANGED <<result, err>>
       ELSE /\ IF r.err # Nil
               THEN Return("UPDATE_ERROR", Nil, Nil, r.err)
               ELSE Return("UPDATE", Nil, r.lead, Nil)
            /\ UNCHANGED calls
    /\ UNCHANGED <<csvFile, runErr, apiClient, serverLeads, outcomes, summary, leads, i,
                   createCount, updateCount, skipCount,
                   errorCount, lookupRet, attempt, trace, sleeps>>

\* ProcessLead after UpdateLead has returned r.
ProcessLeadUpdated(r) ==
    /\ mutationRet' = r
    /\ IF r.err # Nil
       THEN Return("UPDATE_ERROR", Nil, Nil, r.err)
       ELSE Return("UPDATE", Nil, r.lead, Nil)
    /\ UNCHANGED <<csvFile, runErr, apiClient, serverLeads, outcomes, summary, leads, i,
                   createCount, updateCount, skipCount,
                   errorCount, calls, lookupRet, attempt, trace, sleeps>>

MockCreateLead ==
    /\ pc = "create"
    /\ apiClient = "MockAPIClient"
    /\ \E r \in MockMutationResults(leads[i]) : ProcessLeadCreated(r)

CreateLead ==
    /\ pc = "create"
    /\ apiClient = "APIClientAdapter"
    /\ ProcessLeadCreated(APICreateLead(leads[i]))

MockUpdateLead ==
    /\ pc = "update"
    /\ apiClient = "MockAPIClient"
    /\ \E r \in MockMutationResults(leads[i]) : ProcessLeadUpdated(r)

UpdateLead ==
    /\ pc = "update"
    /\ apiClient = "APIClientAdapter"
    /\ ProcessLeadUpdated(APIUpdateLead(leads[i]))

\* Counter, except that the switch has no default branch.
Counter_NoDefault(res, e) ==
    IF e # Nil THEN "errorCount"
    ELSE IF Deref(res).Action = "CREATE" THEN "createCount"
    ELSE IF Deref(res).Action = "UPDATE" THEN "updateCount"
    ELSE IF Deref(res).Action = "SKIP" THEN "skipCount"
    ELSE IF Deref(res).Action = "VALIDATION_ERROR" THEN "errorCount"
    ELSE IF Deref(res).Action = "API_ERROR" THEN "errorCount"
    ELSE "none"

\* The counter the switch on result.Action increments ("continue" after an
\* error return of ProcessLead included).
Counter(res, e) ==
    IF e # Nil THEN "errorCount"
    ELSE IF Deref(res).Action = "CREATE" THEN "createCount"
    ELSE IF Deref(res).Action = "UPDATE" THEN "updateCount"
    ELSE IF Deref(res).Action = "SKIP" THEN "skipCount"
    ELSE IF Deref(res).Action = "VALIDATION_ERROR" THEN "errorCount"
    ELSE IF Deref(res).Action = "API_ERROR" THEN "errorCount"
    ELSE "errorCount"

\* Tally, except that the loop is left as soon as a lead was not created,
\* updated or skipped.
Tally_StopOnError ==
    /\ pc = "tally"
    /\ LET c == Counter(result, err)
       IN  /\ createCount' = IF c = "createCount" THEN createCount + 1 ELSE createCount
           /\ updateCount' = IF c = "updateCount" THEN updateCount + 1 ELSE updateCount
           /\ skipCount' = IF c = "skipCount" THEN skipCount + 1 ELSE skipCount
           /\ errorCount' = IF c = "errorCount" THEN errorCount + 1 ELSE errorCount
           /\ pc' = IF c = "errorCount" THEN "done" ELSE "loop"
           /\ summary' = IF c = "errorCount"
                         THEN Ptr([total |-> Len(leads), created |-> createCount,
                                   updated |-> updateCount, skipped |-> skipCount,
                                   errors |-> errorCount + 1])
                         ELSE summary
    /\ outcomes' = Append(outcomes,
                          [k |-> i,
                           Action |-> IF result = Nil THEN "" ELSE Deref(result).Action,
                           calls |-> calls])
    /\ i' = i + 1
    /\ UNCHANGED <<csvFile, runErr, apiClient, serverLeads, leads, result, err, calls,
                   lookupRet, mutationRet, attempt, trace, sleeps>>

\* Tally, except that a lead whose lookup has failed is put back to be
\* processed again.
Tally_RequeuesAPIError ==
    /\ pc = "tally"
    /\ IF Deref(result).Action = "API_ERROR"
       THEN UNCHANGED <<createCount, updateCount, skipCount, errorCount,
                        outcomes, i>>
       ELSE /\ LET c == Counter(result, err)
               IN  /\ createCount' = IF c = "createCount" THEN createCount + 1 ELSE createCount
                   /\ updateCount' = IF c = "updateCount" THEN updateCount + 1 ELSE updateCount
                   /\ skipCount' = IF c = "skipCount" THEN skipCount + 1 ELSE skipCount
                   /\ errorCount' = IF c = "errorCount" THEN errorCount + 1 ELSE errorCount
            /\ outcomes' = Append(outcomes,
                                  [k |-> i,
                                   Action |-> IF result = Nil THEN "" ELSE Deref(result).Action,
                                   calls |-> calls])
            /\ i' = i + 1
    /\ pc' = "loop"
    /\ UNCHANGED <<csvFile, runErr, apiClient, serverLeads, summary, leads, result, err, calls,
                   lookupRet, mutationRet, attempt, trace, sleeps>>

\* runProcessCommand: the loop body after ProcessLead has returned.
Tally ==
    /\ pc = "tally"
    /\ LET c == Counter(result, err)
       IN  /\ createCount' = IF c = "createCount" THEN createCount + 1 ELSE createCount
           /\ updateCount' = IF c = "updateCount" THEN updateCount + 1 ELSE updateCount
           /\ skipCount' = IF c = "skipCount" THEN skipCount + 1 ELSE skipCount
           /\ errorCount' = IF c = "errorCount" THEN errorCount + 1 ELSE errorCount
    /\ outcomes' = Append(outcomes,
                          [k |-> i,
                           Action |-> IF result = Nil THEN "" ELSE Deref(result).Action,
                           calls |-> calls])
    /\ i' = i + 1
    /\ pc' = "loop"
    /\ UNCHANGED <<csvFile, runErr, apiClient, serverLeads, summary, leads, result, err, calls,
                   lookupRet, mutationRet, attempt, trace, sleeps>>

\* Summary, except that the command returns an error when a lead has failed.
Summary_FailsOnErrors ==
    /\ pc = "loop"
    /\ i > Len(leads)
    /\ summary' = Ptr([total |-> Len(leads), created |-> createCount,
                        updated |-> updateCount, skipped |-> skipCount,
                        errors |-> errorCount])
    /\ pc' = IF errorCount > 0 THEN "exit" ELSE "done"
    /\ runErr' = IF errorCount > 0 THEN Ptr("some leads failed") ELSE runErr
    /\ UNCHANGED <<csvFile, apiClient, serverLeads, outcomes, leads, i, createCount,
                   updateCount, skipCount, errorCount, result, err, calls,
                   lookupRet, mutationRet, attempt, trace, sleeps>>

\* runProcessCommand: the summary after the loop, and the return.
Summary ==
    /\ pc = "loop"
    /\ i > Len(leads)
    /\ summary' = Ptr([total |-> Len(leads), created |-> createCount,
                        updated |-> updateCount, skipped |-> skipCount,
                        errors |-> errorCount])
    /\ pc' = "done"
    /\ UNCHANGED <<csvFile, runErr, apiClient, serverLeads, outcomes, leads, i, createCount,
                   updateCount, skipCount, errorCount, result, err, calls,
                   lookupRet, mutationRet, attempt, trace, sleeps>>

Next ==
    \/ ProcessLeadValidate
    \/ MockLookupLead
    \/ LookupLead
    \/ handleRateLimitSleep
    \/ handleRateLimitRetry
    \/ ProcessLeadDecide
    \/ MockCreateLead
    \/ CreateLead
    \/ MockUpdateLead
    \/ UpdateLead
    \/ Tally
    \/ Summary

Spec == Init /\ [][Next]_vars

\* The command run with the test double on an input of one data row, the
\* fields of the row drawn independently.
OneLeadBatches ==
    { <<NewLead("uuid-1", n, e, c, s)>> :
        n \in {<<"A">>, <<" ">>, <<" ", "A">>},
        e \in {EmailAB, <<"a", "-", "b">>, <<>>,
               <<"a", "1", "@", "b", "-", "c", ".", "c">>},
        c \in {<<"X">>, <<"\t", " ">>},
        s \in {"LinkedIn", "Webinar", "linkedin", ""} }

InitOneLead ==
    /\ apiClient = "MockAPIClient"
    /\ serverLeads = {}
    /\ leads \in OneLeadBatches
    /\ csvFile = FileOf(leads)
    /\ runErr = Nil
    /\ i = 1
    /\ pc = "loop"
    /\ createCount = 0
    /\ updateCount = 0
    /\ skipCount = 0
    /\ errorCount = 0
    /\ result = Nil
    /\ err = Nil
    /\ calls = <<>>
    /\ lookupRet = NoReturn
    /\ mutationRet = NoMutation
    /\ attempt = 0
    /\ trace = <<>>
    /\ sleeps = <<>>
    /\ outcomes = <<>>
    /\ summary = Nil

NextOneLead ==
    \/ ProcessLeadValidate
    \/ MockLookupLead
    \/ ProcessLeadDecide
    \/ MockCreateLead
    \/ MockUpdateLead
    \/ Tally
    \/ Summary

SpecOneLead == InitOneLead /\ [][NextOneLead]_vars

\* The command as main runs it: the source is read first, and the processor
\* is given the production client.
InitRun ==
    /\ apiClient = "APIClientAdapter"
    /\ serverLeads \in Stores
    /\ csvFile \in Files
    /\ runErr = Nil
    /\ leads = <<>>
    /\ i = 1
    /\ pc = "read"
    /\ createCount = 0
    /\ updateCount = 0
    /\ skipCount = 0
    /\ errorCount = 0
    /\ result = Nil
    /\ err = Nil
    /\ calls = <<>>
    /\ lookupRet = NoReturn
    /\ mutationRet = NoMutation
    /\ attempt = 0
    /\ trace = <<>>
    /\ sleeps = <<>>
    /\ outcomes = <<>>
    /\ summary = Nil

\* runProcessCommand: the call of ReadLeads and the test of its error.
runProcessCommandRead ==
    /\ pc = "read"
    /\ IF ReadLeads(csvFile).err # Nil
       THEN /\ runErr' = Ptr("failed to read CSV file: " \o Deref(ReadLeads(csvFile).err))
            /\ pc' = "exit"
            /\ UNCHANGED leads
       ELSE /\ leads' = ReadLeads(csvFile).leads
            /\ pc' = "loop"
            /\ UNCHANGED runErr
    /\ UNCHANGED <<csvFile, apiClient, serverLeads, outcomes, summary, i,
                   createCount, updateCount, skipCount, errorCount, result, err,
                   calls, lookupRet, mutationRet, attempt, trace, sleeps>>

NextRun ==
    \/ runProcessCommandRead
    \/ ProcessLeadValidate
    \/ LookupLead
    \/ handleRateLimitSleep
    \/ handleRateLimitRetry
    \/ ProcessLeadDecide
    \/ CreateLead
    \/ UpdateLead
    \/ Tally
    \/ Summary

SpecRun == InitRun /\ [][NextRun]_vars

\* The files of leads under the four-column header, with a file that is
\* missing, one that is malformed and one that is empty.
FourColumnFiles ==
    { f \in Files :
        \/ ~f.exists
        \/ ~f.wellFormed
        \/ \A k \in 1..Len(f.records) :
              /\ Len(f.records[k]) = 4
              /\ k = 1 => f.records[k] = Header }

InitRunFair == InitRun /\ csvFile \in FourColumnFiles

\* The command as a running process: it is one sequential thread, which takes
\* its next step whenever it has one; each HTTP attempt returns (a response,
\* or an error after the http.Client timeout at the latest).
SpecRunFair == InitRunFair /\ [][NextRun]_vars /\ WF_vars(NextRun)

(***************************************************************************)
(* Properties of ProcessLead                                               *)
(***************************************************************************)
\* A ProcessLead call for leads[i] is in progress or has just returned.
InCall == pc \notin {"loop", "done"}

Returned == pc = "tally"

\* LookupLead has returned without error.
LookupOK == lookupRet.err = Nil /\ lookupRet.resp # Nil

Existing == Deref(lookupRet.resp).Lead

BusinessEqual(a, b) ==
    /\ a.Name = b.Name
    /\ a.Email = b.Email
    /\ a.Company = b.Company
    /\ a.Source = b.Source

AllFourMessages ==
    "name is required; valid email is required; company is required; "
    \o "source must be one of: "
    \o "LinkedIn, Website, Conference, Referral, Webinar, Twitter"

\* C1: a lead that fails validation gets the outcome VALIDATION_ERROR carrying
\* the aggregated validation message, and no client operation (LookupLead,
\* CreateLead, UpdateLead) is called for it.
C1_InvalidLeadNeverReachesClient ==
    (InCall /\ validationErrors(leads[i]) # <<>>) =>
        /\ Returned
        /\ result # Nil
        /\ Deref(result).Action = "VALIDATION_ERROR"
        /\ Deref(result).Error = Ptr(Join(validationErrors(leads[i]), "; "))
        /\ calls = <<>>
        /\ trace = <<>>

C1_Witness ==
    /\ Returned
    /\ Len(validationErrors(leads[i])) = 4
    /\ Deref(result).Action = "VALIDATION_ERROR"
    /\ Deref(result).Error = Ptr(AllFourMessages)
    /\ calls = <<>>

\* C2: for a valid lead whose lookup succeeds with NotFound, exactly one
\* create attempt and no update attempt is made, and the outcome is CREATE
\* carrying the created lead when create succeeds and CREATE_ERROR carrying
\* the error when create fails (never SKIP or UPDATE).
C2_NotFoundCreates ==
    (InCall /\ LookupOK /\ ~Deref(lookupRet.resp).Found) =>
        /\ pc \in {"decide", "create", "tally"}
        /\ pc = "decide" => calls = <<"LookupLead">>
        /\ pc \in {"create", "tally"} => calls = <<"LookupLead", "CreateLead">>
        /\ Returned =>
              IF mutationRet.err = Nil
              THEN Deref(result) =
                      ProcessResult("CREATE", Ptr(leads[i]), mutationRet.lead,
                                    Nil, Nil)
              ELSE Deref(result) =
                      ProcessResult("CREATE_ERROR", Ptr(leads[i]), Nil, Nil,
                                    mutationRet.err)

C2_Witness ==
    /\ Returned
    /\ LookupOK /\ ~Deref(lookupRet.resp).Found
    /\ Deref(lookupRet.resp).Lead # Nil
    /\ calls = <<"LookupLead", "CreateLead">>
    /\ Deref(result).Action = "CREATE"
    /\ Deref(result).CreatedLead # Nil

\* C3: for a valid lead whose lookup returns Found(x) with x's name, email,
\* company and source equal to the input's, whatever x's id and timestamps,
\* the outcome is SKIP and neither CreateLead nor UpdateLead is called.
C3_FoundEqualSkips ==
    (InCall /\ LookupOK /\ Deref(lookupRet.resp).Found /\ Existing # Nil
       /\ BusinessEqual(leads[i], Deref(Existing))) =>
        /\ pc \in {"decide", "tally"}
        /\ calls = <<"LookupLead">>
        /\ Returned =>
              Deref(result) = ProcessResult("SKIP", Ptr(leads[i]), Nil, Nil, Nil)

C3_Witness ==
    /\ Returned
    /\ LookupOK /\ Deref(lookupRet.resp).Found /\ Existing # Nil
    /\ BusinessEqual(leads[i], Deref(Existing))
    /\ Deref(Existing).ID # leads[i].ID
    /\ Deref(Existing).CreatedAt # leads[i].CreatedAt
    /\ Deref(Existing).UpdatedAt # leads[i].UpdatedAt
    /\ Deref(result).Action = "SKIP"

\* C4: for a valid lead whose lookup returns Found(x) with at least one of
\* name, email, company, source different from the input's, exactly one update
\* attempt and no create attempt is made, and the outcome is UPDATE carrying
\* the updated lead when update succeeds and UPDATE_ERROR carrying the error
\* when it fails.
C4_FoundDifferentUpdates ==
    (InCall /\ LookupOK /\ Deref(lookupRet.resp).Found /\ Existing # Nil
       /\ ~BusinessEqual(leads[i], Deref(Existing))) =>
        /\ pc \in {"decide", "update", "tally"}
        /\ pc = "decide" => calls = <<"LookupLead">>
        /\ pc \in {"update", "tally"} => calls = <<"LookupLead", "UpdateLead">>
        /\ Returned =>
              IF mutationRet.err = Nil
              THEN Deref(result) =
                      ProcessResult("UPDATE", Ptr(leads[i]), Nil,
                                    mutationRet.lead, Nil)
              ELSE Deref(result) =
                      ProcessResult("UPDATE_ERROR", Ptr(leads[i]), Nil, Nil,
                                    mutationRet.err)

C4_Witness ==
    /\ Returned
    /\ LookupOK /\ Deref(lookupRet.resp).Found /\ Existing # Nil
    /\ Deref(Existing).Source # leads[i].Source
    /\ Deref(Existing).Name = leads[i].Name
    /\ calls = <<"LookupLead", "UpdateLead">>
    /\ Deref(result).Action = "UPDATE_ERROR"
    /\ Deref(result).Error = Ptr("mutation failed")

\* C5: for a valid lead whose lookup call returns an error, the outcome is
\* API_ERROR, its error detail is exactly the error the lookup returned, and
\* neither CreateLead nor UpdateLead is called.
C5_LookupErrorIsAPIError ==
    (InCall /\ lookupRet.err # Nil) =>
        /\ pc \in {"decide", "tally"}
        /\ calls = <<"LookupLead">>
        /\ Returned =>
              Deref(result) =
                  ProcessResult("API_ERROR", Ptr(leads[i]), Nil, Nil, lookupRet.err)

C5_Witness ==
    /\ Returned
    /\ lookupRet.err = Ptr("API returned status 500")
    /\ Deref(result).Action = "API_ERROR"
    /\ Deref(result).Error = Ptr("API returned status 500")
    /\ calls = <<"LookupLead">>

Actions ==
    {"CREATE", "UPDATE", "SKIP", "VALIDATION_ERROR", "API_ERROR", "CREATE_ERROR",
     "UPDATE_ERROR"}

InAPICall == apiClient = "APIClientAdapter" /\ InCall

LookupReturned == pc \in {"decide", "create", "update", "tally", "panic"}

Is200(o) == o.netErr = Nil /\ o.StatusCode = 200

Is429(o) == o.netErr = Nil /\ o.StatusCode = 429

Undecodable(o) == Is200(o) /\ ~o.Body.wellFormed

OtherStatus(o) == o.netErr = Nil /\ o.StatusCode \notin {200, 429}

Backoffs == <<100, 200, 400>>

StatusCodes(t) == [k \in 1..Len(t) |-> t[k].StatusCode]

\* ret is the successful lookup result that the body b describes.
Represents(ret, b) ==
    /\ ret.err = Nil
    /\ ret.resp # Nil
    /\ Deref(ret.resp).Found = (b.found = "true")
    /\ (b.lead = Nil) = (Deref(ret.resp).Lead = Nil)
    /\ b.lead # Nil =>
          LET x == Deref(Deref(ret.resp).Lead)
              d == Deref(b.lead)
          IN  /\ x.ID = d.id
              /\ x.Name = d.name
              /\ x.Email = d.email
              /\ x.Company = d.company
              /\ x.Source = d.source
              /\ x.CreatedAt = d.createdAt

\* C7: when the first response is 429 and a retry receives a (decodable) 200,
\* LookupLead returns that response's decoded result at once: that request is
\* the last one and no sleep follows it; for the responses 429, 429, 200 it
\* returns after exactly 3 requests and the two sleeps 100 ms, 200 ms.
C7_RetrySuccessReturnsAtOnce ==
    (InAPICall /\ Len(trace) >= 2 /\ Is429(trace[1])) =>
        /\ \A k \in 2..Len(trace) :
              (Is200(trace[k]) /\ trace[k].Body.wellFormed) =>
                  /\ k = Len(trace)
                  /\ LookupReturned
                  /\ Represents(lookupRet, trace[k].Body)
                  /\ sleeps = SubSeq(Backoffs, 1, k - 1)
        /\ (Len(trace) >= 3 /\ SubSeq(StatusCodes(trace), 1, 3) = <<429, 429, 200>>
              /\ trace[3].Body.wellFormed) =>
                  /\ Len(trace) = 3
                  /\ sleeps = <<100, 200>>
                  /\ LookupReturned
                  /\ lookupRet.err = Nil

C7_Witness ==
    /\ InAPICall
    /\ Returned
    /\ StatusCodes(trace) = <<429, 429, 200>>
    /\ trace[3].Body.lead # Nil
    /\ sleeps = <<100, 200>>
    /\ LookupOK /\ Deref(lookupRet.resp).Found
    /\ Deref(Existing).ID = "srv-1"

\* C8: when every response to a lookup is 429, LookupLead returns an error and
\* no result after exactly 4 requests (1 initial + 3 retries) and exactly the
\* sleeps 100 ms, 200 ms, 400 ms in that order, each sleep immediately before
\* its retry.
C8_All429Exhausts ==
    (InAPICall /\ trace # <<>> /\ \A k \in 1..Len(trace) : Is429(trace[k])) =>
        /\ Len(trace) <= 4
        /\ LookupReturned <=> (Len(trace) = 4 /\ pc # "backoff" /\ pc # "retry")
        /\ pc = "backoff" => sleeps = SubSeq(Backoffs, 1, Len(trace) - 1)
        /\ pc = "retry" => sleeps = SubSeq(Backoffs, 1, Len(trace))
        /\ LookupReturned =>
              /\ sleeps = <<100, 200, 400>>
              /\ lookupRet.resp = Nil
              /\ lookupRet.err # Nil
              /\ pc \in {"decide", "tally"}

C8_Witness ==
    /\ InAPICall
    /\ pc = "decide"
    /\ StatusCodes(trace) = <<429, 429, 429, 429>>
    /\ sleeps = <<100, 200, 400>>
    /\ lookupRet.resp = Nil
    /\ lookupRet.err # Nil

\* C9 as stated: during the retry phase, a retried request that fails for any
\* reason other than 429 (transport failure, a non-200 non-429 status, an
\* undecodable 200 body) makes LookupLead return that error at once, with no
\* further request or sleep.
C9_AnyRetryFailureReturnsAtOnce ==
    (InAPICall /\ Len(trace) >= 2) =>
        \A k \in 2..Len(trace) :
            (trace[k].netErr # Nil \/ OtherStatus(trace[k]) \/ Undecodable(trace[k])) =>
                /\ k = Len(trace)
                /\ LookupReturned
                /\ lookupRet.err # Nil
                /\ Len(sleeps) = k - 1

\* C9 (amended): during the retry phase, a retried request that returns a
\* non-200 non-429 status or an undecodable 200 body makes LookupLead return
\* that error at once, with no further request or sleep; a transport failure
\* is returned only when it is the third retry's, and on the first or second
\* retry it is followed by the next sleep and request.
C9_RetryFailureAmended ==
    (InAPICall /\ Len(trace) >= 2) =>
        \A k \in 2..Len(trace) :
            /\ (OtherStatus(trace[k]) \/ Undecodable(trace[k])) =>
                  /\ k = Len(trace)
                  /\ LookupReturned
                  /\ lookupRet.err # Nil
                  /\ lookupRet.resp = Nil
                  /\ Len(sleeps) = k - 1
            /\ (trace[k].netErr # Nil /\ k = 4) =>
                  /\ LookupReturned
                  /\ lookupRet.resp = Nil
                  /\ lookupRet.err =
                        Ptr("failed after 3 retries: " \o Deref(trace[k].netErr).msg)
                  /\ Len(sleeps) = 3
            /\ (trace[k].netErr # Nil /\ k < 4) =>
                  /\ ~LookupReturned \/ Len(trace) > k
                  /\ (k = Len(trace) /\ pc = "backoff") => Len(sleeps) = k - 1
                  /\ (k = Len(trace) /\ pc = "retry") => Len(sleeps) = k

C9_Witness ==
    /\ InAPICall
    /\ pc = "decide"
    /\ Len(trace) = 3
    /\ Is429(trace[1])
    /\ trace[2].netErr # Nil
    /\ trace[3].StatusCode = 500
    /\ sleeps = <<100, 200>>
    /\ lookupRet.err = Ptr("API returned status 500 after 2 retries")

\* C10: if the first request fails in transport, or returns a status other
\* than 200 and 429, or returns a 200 with an undecodable body, LookupLead
\* returns an error and a nil result after exactly one request and no sleep;
\* only a 429 first response starts the retry protocol.
C10_FirstFailureNoRetry ==
    (InAPICall /\ trace # <<>>) =>
        /\ (trace[1].netErr # Nil \/ OtherStatus(trace[1]) \/ Undecodable(trace[1])) =>
              /\ Len(trace) = 1
              /\ sleeps = <<>>
              /\ pc \in {"decide", "tally"}
              /\ lookupRet.err # Nil
              /\ lookupRet.resp = Nil
        /\ (Len(trace) > 1 \/ sleeps # <<>> \/ pc \in {"backoff", "retry"}) =>
              Is429(trace[1])

C10_Witness ==
    /\ InAPICall
    /\ pc = "decide"
    /\ Len(trace) = 1
    /\ trace[1].netErr # Nil
    /\ Deref(trace[1].netErr).Timeout
    /\ sleeps = <<>>
    /\ lookupRet = [resp |-> Nil,
                    err |-> Ptr("request timeout: context deadline exceeded")]

\* ---------------------------------------------------------------------
\* The batch loop of runProcessCommand.

\* The tags ProcessLead gives an outcome that reports a failure.
ErrorTags == {"VALIDATION_ERROR", "API_ERROR", "CREATE_ERROR", "UPDATE_ERROR"}

\* C11: for a batch of N leads the loop produces exactly one outcome per
\* lead, in order, whatever failed: the k-th outcome belongs to lead k, after
\* any outcome the loop goes on to the next lead and it ends only when no
\* lead is left, and when the command has finished there are N outcomes and
\* the reported total is N.
C11_OneOutcomePerLead ==
    /\ [](/\ Len(outcomes) = i - 1
          /\ Len(outcomes) <= Len(leads)
          /\ \A k \in 1..Len(outcomes) : outcomes[k].k = k
          /\ pc # "done" => summary = Nil
          /\ pc = "done" =>
                /\ Len(outcomes) = Len(leads)
                /\ summary # Nil
                /\ Deref(summary).total = Len(leads))
    /\ [][ /\ pc = "tally" =>
                /\ pc' = "loop"
                /\ i' = i + 1
                /\ outcomes' = Append(outcomes, outcomes'[i])
                /\ outcomes'[i].Action = Deref(result).Action
          /\ pc' = "done" => (pc = "loop" /\ i > Len(leads)) ]_vars

\* A finished batch whose first lead failed (validation, lookup, create or
\* update) and whose last lead was processed all the same.
C11_Witness ==
    /\ pc = "done"
    /\ Len(leads) >= 2
    /\ outcomes[1].Action \in ErrorTags
    /\ outcomes[Len(leads)].Action \in {"CREATE", "UPDATE", "SKIP"}
    /\ Deref(summary).total = Len(leads)
    /\ \E t \in ErrorTags : \E k \in 1..Len(leads) : outcomes[k].Action = t

\* The number of outcomes so far whose tag is in S.
Tagged(S) == Cardinality({ k \in 1..Len(outcomes) : outcomes[k].Action \in S })

\* C12: each processed lead increments exactly one counter by one: created
\* counts the CREATE outcomes, updated the UPDATE outcomes, skipped the SKIP
\* outcomes and errored every other outcome (VALIDATION_ERROR, API_ERROR,
\* CREATE_ERROR, UPDATE_ERROR, anything else); so after i leads the four
\* counters sum to i, and the summary reports counters that sum to the
\* number of leads.
C12_CountersPartitionOutcomes ==
    /\ createCount = Tagged({"CREATE"})
    /\ updateCount = Tagged({"UPDATE"})
    /\ skipCount = Tagged({"SKIP"})
    /\ errorCount = Len(outcomes) - Tagged({"CREATE", "UPDATE", "SKIP"})
    /\ errorCount >= Tagged(ErrorTags)
    /\ createCount + updateCount + skipCount + errorCount = Len(outcomes)
    /\ pc = "done" =>
          /\ Deref(summary).created = createCount
          /\ Deref(summary).updated = updateCount
          /\ Deref(summary).skipped = skipCount
          /\ Deref(summary).errors = errorCount
          /\ createCount + updateCount + skipCount + errorCount = Len(leads)

\* A finished batch with a created lead and a lead whose create failed, the
\* latter counted by the default branch of the switch.
C12_Witness ==
    /\ pc = "done"
    /\ Len(leads) >= 2
    /\ \E j, k \in 1..Len(leads) :
          /\ outcomes[j].Action = "CREATE"
          /\ outcomes[k].Action \in {"CREATE_ERROR", "UPDATE_ERROR"}
    /\ createCount >= 1
    /\ errorCount >= 1

\* ---------------------------------------------------------------------
\* Lead.IsEqual.

\* The leads at hand when ProcessLead compares: the leads of the batch, the
\* records of the remote store and the record the lookup returned.
LeadsAtHand ==
    { leads[k] : k \in 1..Len(leads) } \cup serverLeads
    \cup (IF LookupOK /\ Existing # Nil THEN {Deref(Existing)} ELSE {})

\* a with another id and other timestamps.
Restamped(a) ==
    { a, [a EXCEPT !.ID = "id-other"], [a EXCEPT !.CreatedAt = "t-other"],
      [a EXCEPT !.UpdatedAt = IF a.UpdatedAt = Nil THEN Ptr("t-other-upd") ELSE Nil],
      [a EXCEPT !.ID = "id-other", !.CreatedAt = "t-other",
                !.UpdatedAt = Ptr("t-other-upd")] }

\* a with exactly one of name, email, company, source changed.
OneFieldChanged(a) ==
    { [a EXCEPT !.Name = Other(a.Name, <<"Z">>, <<"Q">>)],
      [a EXCEPT !.Email = <<"z">> \o a.Email],
      [a EXCEPT !.Company = Other(a.Company, <<"Q">>, <<"Z">>)],
      [a EXCEPT !.Source = Other(a.Source, "Website", "Referral")] }

\* C13: IsEqual is reflexive and symmetric on non-nil leads, gives the same
\* value whatever the id, createdAt and updatedAt of the two leads are, is
\* false as soon as one of name, email, company, source differs, and is
\* false when the other lead is nil.
C13_IsEqualIsBusinessEquality ==
    pc = "decide" =>
      \A a \in LeadsAtHand :
        /\ IsEqual(a, Ptr(a))
        /\ ~IsEqual(a, Nil)
        /\ \A c \in OneFieldChanged(a) :
              ~IsEqual(a, Ptr(c)) /\ ~IsEqual(c, Ptr(a))
        /\ \A b \in LeadsAtHand :
              /\ IsEqual(a, Ptr(b)) = IsEqual(b, Ptr(a))
              /\ IsEqual(a, Ptr(b)) = BusinessEqual(a, b)
              /\ \A x \in Restamped(a), y \in Restamped(b) :
                    IsEqual(x, Ptr(y)) = IsEqual(a, Ptr(b))

\* ProcessLead is about to compare a lead with a non-nil remote record that
\* agrees with it in the four business fields and carries another id, another
\* creation time and an update time.
C13_Witness ==
    /\ pc = "decide"
    /\ LookupOK
    /\ Deref(lookupRet.resp).Found
    /\ Existing # Nil
    /\ BusinessEqual(leads[i], Deref(Existing))
    /\ IsEqual(leads[i], Existing)
    /\ Deref(Existing).ID # leads[i].ID
    /\ Deref(Existing).CreatedAt # leads[i].CreatedAt
    /\ Deref(Existing).UpdatedAt # leads[i].UpdatedAt

\* ---------------------------------------------------------------------
\* Lead.Validate.

\* The message of each of the four rules, in the order of the rules.
RuleMessages ==
    << "name is required",
       "valid email is required",
       "company is required",
       "source must be one of: LinkedIn, Website, Conference, Referral, Webinar, Twitter" >>

\* The rules the lead l violates: 1 name empty after trimming, 2 email not
\* matching the pattern, 3 company empty after trimming, 4 source not one of
\* the six allowed values.
ViolatedRules(l) ==
    (IF \A k \in 1..Len(l.Name) : l.Name[k] \in Spaces THEN {1} ELSE {})
    \cup (IF ~emailRegexMatch(l.Email) THEN {2} ELSE {})
    \cup (IF \A k \in 1..Len(l.Company) : l.Company[k] \in Spaces THEN {3} ELSE {})
    \cup (IF l.Source \notin {"LinkedIn", "Website", "Conference", "Referral",
                               "Webinar", "Twitter"}
          THEN {4} ELSE {})

\* The messages of the rules in V, in order, joined by "; ".
MessagesOf(V) ==
    LET m(k) == IF k \in V THEN <<RuleMessages[k]>> ELSE <<>>
        ms == m(1) \o m(2) \o m(3) \o m(4)
    IN  IF Len(ms) = 1 THEN ms[1]
        ELSE IF Len(ms) = 2 THEN ms[1] \o "; " \o ms[2]
        ELSE IF Len(ms) = 3 THEN ms[1] \o "; " \o ms[2] \o "; " \o ms[3]
        ELSE IF Len(ms) = 4
        THEN ms[1] \o "; " \o ms[2] \o "; " \o ms[3] \o "; " \o ms[4]
        ELSE ""

\* C14: Validate is exhaustive: for every combination of the four rules the
\* error it returns is made of the messages of exactly the violated rules
\* (every violated rule's message, no satisfied rule's message), and it
\* returns no error exactly when all four rules are satisfied, in which case
\* processing goes on to the lookup.
C14_ValidateIsExhaustive ==
    InCall =>
        /\ ViolatedRules(leads[i]) = {} <=> calls # <<>>
        /\ ViolatedRules(leads[i]) # {} =>
              /\ Returned
              /\ Deref(result).Action = "VALIDATION_ERROR"
              /\ Deref(result).Error = Ptr(MessagesOf(ViolatedRules(leads[i])))
        /\ (Returned /\ Deref(result).Action = "VALIDATION_ERROR") =>
              ViolatedRules(leads[i]) # {}

\* A lead violating the email rule and the source rule and no other has been
\* validated: the error names these two rules only.
C14_Witness ==
    /\ Returned
    /\ ViolatedRules(leads[i]) = {2, 4}
    /\ Deref(result).Action = "VALIDATION_ERROR"
    /\ Deref(result).Error =
          Ptr("valid email is required; source must be one of: "
              \o "LinkedIn, Website, Conference, Referral, Webinar, Twitter")

\* ---------------------------------------------------------------------
\* ProcessLead and its input.

\* C15: ProcessLead never changes a field of its input lead, on any branch
\* (no step of the command changes a lead of the batch), and every outcome it
\* returns carries that same unmodified input lead as its original lead.
C15_InputLeadUntouched ==
    [][ /\ leads' = leads
        /\ pc' = "tally" =>
              /\ result' # Nil
              /\ Deref(result').Lead = Ptr(leads[i])
              /\ Deref(result').Lead = Ptr(leads'[i']) ]_vars

\* An UPDATE outcome: the change is a new lead next to the input lead, which
\* the outcome carries as it was read.
C15_Witness ==
    /\ Returned
    /\ Deref(result).Action = "UPDATE"
    /\ Deref(result).UpdatedLead # Nil
    /\ Deref(Deref(result).UpdatedLead) # leads[i]
    /\ Deref(result).Lead = Ptr(leads[i])
    /\ leads[i].ID = "uuid-" \o Itoa(i)
    /\ leads[i].UpdatedAt = Nil

\* ---------------------------------------------------------------------
\* The production client's create and update.

\* C16: a lead's id is stable and not regenerated on update: when processing
\* yields UPDATE through the production client, the updated lead has the id
\* of the existing remote record that the lookup returned for that email.
C16_UpdateKeepsRemoteID ==
    ( /\ apiClient = "APIClientAdapter"
      /\ Returned
      /\ Deref(result).Action = "UPDATE"
      /\ LookupOK
      /\ Existing # Nil ) =>
        /\ Deref(result).UpdatedLead # Nil
        /\ Deref(Deref(result).UpdatedLead).ID = Deref(Existing).ID

\* ---------------------------------------------------------------------
\* The shape of an outcome.

\* The outcome ProcessLead has returned.
Outcome == Deref(result)

\* An error-tagged outcome has an error detail and no resulting lead; SKIP
\* has neither.
ErrorAndSkipShapes ==
    /\ Outcome.Action \in ErrorTags =>
          /\ Outcome.Error # Nil
          /\ Outcome.CreatedLead = Nil
          /\ Outcome.UpdatedLead = Nil
    /\ Outcome.Action = "SKIP" =>
          /\ Outcome.Error = Nil
          /\ Outcome.CreatedLead = Nil
          /\ Outcome.UpdatedLead = Nil

\* C17, as stated: every outcome has a consistent shape: an error-tagged
\* outcome has a non-nil error detail and no resulting lead, SKIP has neither,
\* CREATE has a non-nil created lead and no error, UPDATE has a non-nil
\* updated lead and no error.
C17_OutcomeShape ==
    Returned =>
        /\ ErrorAndSkipShapes
        /\ Outcome.Action = "CREATE" =>
              Outcome.CreatedLead # Nil /\ Outcome.Error = Nil
        /\ Outcome.Action = "UPDATE" =>
              Outcome.UpdatedLead # Nil /\ Outcome.Error = Nil

\* C17, amended: error-tagged outcomes and SKIP are shaped as stated; CREATE
\* has no error and no updated lead and its created lead is whatever the
\* client's create returned, UPDATE has no error and no created lead and its
\* updated lead is whatever the client's update returned; that lead is
\* non-nil whenever the client returned one, which the production client
\* always does.
C17_OutcomeShapeAmended ==
    Returned =>
        /\ ErrorAndSkipShapes
        /\ Outcome.Action = "CREATE" =>
              /\ Outcome.Error = Nil
              /\ Outcome.UpdatedLead = Nil
              /\ mutationRet.err = Nil
              /\ Outcome.CreatedLead = mutationRet.lead
              /\ apiClient = "APIClientAdapter" => Outcome.CreatedLead # Nil
        /\ Outcome.Action = "UPDATE" =>
              /\ Outcome.Error = Nil
              /\ Outcome.CreatedLead = Nil
              /\ mutationRet.err = Nil
              /\ Outcome.UpdatedLead = mutationRet.lead
              /\ apiClient = "APIClientAdapter" => Outcome.UpdatedLead # Nil

\* The client's create has returned a lead together with an error: the
\* outcome is CREATE_ERROR with the error and without that lead.
C17_Witness ==
    /\ Returned
    /\ Outcome.Action = "CREATE_ERROR"
    /\ mutationRet.lead # Nil
    /\ mutationRet.err # Nil
    /\ Outcome.Error = mutationRet.err
    /\ Outcome.CreatedLead = Nil

\* ---------------------------------------------------------------------
\* The remote store.

\* The records the remote store holds under the email of the lead l.
Stored(l) == { v \in serverLeads : v.Email = l.Email }

\* C18: the production client's create and update act on the remote system:
\* after a lead's processing yields CREATE the remote store holds a record
\* for its email (a later lookup of that email answers Found), and after
\* UPDATE the remote record's name, company and source are the input's.
C18_MutationsReachRemote ==
    (apiClient = "APIClientAdapter" /\ Returned) =>
        /\ Outcome.Action = "CREATE" => Stored(leads[i]) # {}
        /\ Outcome.Action = "UPDATE" =>
              /\ Stored(leads[i]) # {}
              /\ \A v \in Stored(leads[i]) :
                    /\ v.Name = leads[i].Name
                    /\ v.Company = leads[i].Company
                    /\ v.Source = leads[i].Source

\* ---------------------------------------------------------------------
\* Independence of the leads of a batch.

\* The outcome and the client calls of one ProcessLead, as a function of the
\* input lead l and of what the client returned during the call (lk from
\* the lookup, mu from create or update), and of nothing else.
OutcomeOf(l, lk, mu) ==
    IF ViolatedRules(l) # {}
    THEN ProcessResult("VALIDATION_ERROR", Ptr(l), Nil, Nil,
                       Ptr(MessagesOf(ViolatedRules(l))))
    ELSE IF lk.err # Nil
    THEN ProcessResult("API_ERROR", Ptr(l), Nil, Nil, lk.err)
    ELSE IF ~Deref(lk.resp).Found
    THEN IF mu.err # Nil
         THEN ProcessResult("CREATE_ERROR", Ptr(l), Nil, Nil, mu.err)
         ELSE ProcessResult("CREATE", Ptr(l), mu.lead, Nil, Nil)
    ELSE IF Deref(lk.resp).Lead # Nil /\ BusinessEqual(l, Deref(Deref(lk.resp).Lead))
    THEN ProcessResult("SKIP", Ptr(l), Nil, Nil, Nil)
    ELSE IF mu.err # Nil
    THEN ProcessResult("UPDATE_ERROR", Ptr(l), Nil, Nil, mu.err)
    ELSE ProcessResult("UPDATE", Ptr(l), Nil, mu.lead, Nil)

CallsOf(l, lk) ==
    IF ViolatedRules(l) # {} THEN <<>>
    ELSE IF lk.err # Nil THEN <<"LookupLead">>
    ELSE IF ~Deref(lk.resp).Found THEN <<"LookupLead", "CreateLead">>
    ELSE IF Deref(lk.resp).Lead # Nil /\ BusinessEqual(l, Deref(Deref(lk.resp).Lead))
    THEN <<"LookupLead">>
    ELSE <<"LookupLead", "UpdateLead">>

C20_DuplicateEmailsDetected ==
    Returned =>
        \A j \in 1..(i - 1) :
            (leads[j].Email = leads[i].Email /\ outcomes[j].Action = "CREATE") =>
                /\ Outcome.Action # "CREATE"
                /\ \A k \in 1..Len(calls) : calls[k] # "CreateLead"

\* ---------------------------------------------------------------------
\* The run and its source.

\* The file f cannot be read: it cannot be opened, its text is not CSV, or
\* its records do not all have the same number of fields.
Unreadable(f) ==
    \/ ~f.exists
    \/ ~f.wellFormed
    \/ \E k \in 1..Len(f.records) : Len(f.records[k]) # Len(f.records[1])

\* C21: the run returns an error (exit code 1) only when the source cannot
\* be read, and then no lead is processed and no client operation is called;
\* when the source is read the run returns no error, however many leads end
\* in VALIDATION_ERROR, API_ERROR, CREATE_ERROR or UPDATE_ERROR.
C21_ErrorOnlyWhenSourceUnreadable ==
    /\ runErr # Nil <=> pc = "exit"
    /\ pc = "exit" =>
          /\ Unreadable(csvFile)
          /\ leads = <<>>
          /\ outcomes = <<>>
          /\ calls = <<>>
          /\ trace = <<>>
          /\ result = Nil
          /\ summary = Nil
          /\ createCount + updateCount + skipCount + errorCount = 0
    /\ (pc # "read" /\ ~Unreadable(csvFile)) => runErr = Nil
    /\ (pc # "read" /\ Unreadable(csvFile)) => pc = "exit"
    /\ pc = "done" => (runErr = Nil /\ summary # Nil)

\* The run has ended without error although every lead of a source of two
\* or more rows has failed.
C21_Witness ==
    /\ pc = "done"
    /\ runErr = Nil
    /\ Len(leads) >= 2
    /\ errorCount = Len(leads)
    /\ \E k \in 1..Len(leads) : outcomes[k].Action = "API_ERROR"
    /\ \E k \in 1..Len(leads) : outcomes[k].Action = "VALIDATION_ERROR"

\* The file f has a data record (a record after the first row) with fewer
\* than 4 fields.
HasShortRecord(f) ==
    /\ f.exists
    /\ f.wellFormed
    /\ \E k \in 2..Len(f.records) : Len(f.records[k]) < 4

\* C22: ReadLeads rejects a source containing a data record with fewer than
\* 4 fields: it returns an error and no leads (the run ends with that
\* error), rather than dropping the record and returning the others.
C22_ShortRecordRejected ==
    (pc # "read" /\ HasShortRecord(csvFile)) =>
        /\ ReadLeads(csvFile).err # Nil
        /\ ReadLeads(csvFile).leads = <<>>
        /\ pc = "exit"
        /\ runErr # Nil

RECURSIVE SumSeq(_)
SumSeq(q) == IF q = <<>> THEN 0 ELSE Head(q) + SumSeq(Tail(q))

\* C24: whatever the responses and network failures, one LookupLead call
\* makes at most 4 HTTP attempts, each retry is preceded by exactly one
\* sleep, the sleep before the k-th retry (k = 1, 2, 3) is 100 * 2^(k-1) ms
\* whatever the earlier attempts returned, and the time slept in total never
\* exceeds 700 ms.
C24_AttemptsAndSleepsBounded ==
    InAPICall =>
        /\ Len(trace) <= 4
        /\ Len(sleeps) <= 3
        /\ \A k \in 1..Len(sleeps) : sleeps[k] = 100 * 2^(k - 1)
        /\ SumSeq(sleeps) <= 700
        /\ pc = "retry" => Len(sleeps) = Len(trace)
        /\ pc # "retry" => Len(sleeps) = (IF trace = <<>> THEN 0 ELSE Len(trace) - 1)

\* A lookup of four attempts whose retries met a network failure, a 429 and
\* a server error: the sleeps were 100, 200 and 400 ms, 700 ms in total.
C24_Witness ==
    /\ InAPICall
    /\ LookupReturned
    /\ Len(trace) = 4
    /\ Is429(trace[1])
    /\ trace[2].netErr # Nil
    /\ Is429(trace[3])
    /\ trace[4].StatusCode = 500
    /\ sleeps = <<100, 200, 400>>
    /\ SumSeq(sleeps) = 700

\* ---------------------------------------------------------------------
\* Classification of a response by LookupLead.

\* The attempt after which LookupLead returned.
LastAttempt == trace[Len(trace)]

\* LookupLead has returned after at least one attempt that got a response.
ReturnedOnResponse ==
    /\ InAPICall
    /\ LookupReturned
    /\ trace # <<>>
    /\ LastAttempt.netErr = Nil

\* The result of decoding the body of the last attempt: a decode error when
\* the body cannot be decoded, a response and no error otherwise.
DecodedLast ==
    IF ~LastAttempt.Body.wellFormed
    THEN /\ lookupRet.resp = Nil
         /\ lookupRet.err = Ptr("failed to decode response: invalid character")
    ELSE /\ lookupRet.resp # Nil
         /\ lookupRet.err = Nil

\* The error of the last attempt carries its status code.
StatusErrorLast ==
    /\ lookupRet.resp = Nil
    /\ lookupRet.err =
          IF Len(trace) = 1
          THEN Ptr("API returned status " \o Itoa(LastAttempt.StatusCode))
          ELSE Ptr("API returned status " \o Itoa(LastAttempt.StatusCode)
                   \o " after " \o Itoa(Len(trace) - 1) \o " retries")

\* C25, as stated: LookupLead classifies a response by its status class, on
\* the first attempt and on retries alike: a non-2xx status other than 429
\* yields an error carrying that status code, and any 2xx status is a success
\* whose body is decoded, a decode failure being reported as a decode error.
C25_ClassifiedByStatusClass ==
    ReturnedOnResponse =>
        /\ LastAttempt.StatusCode \in 200..299 => DecodedLast
        /\ (LastAttempt.StatusCode \notin 200..299 /\ ~Is429(LastAttempt)) =>
              StatusErrorLast

\* C25, amended: on the first attempt and on retries alike, only status 200
\* is a success whose body is decoded, a decode failure being reported as a
\* decode error; every other status except 429, the other 2xx statuses
\* included, yields an error carrying that status code; 429 enters or
\* continues the retry protocol, except on the third retry, where it too
\* yields the error carrying the status code; and no attempt follows a
\* response other than 429.
C25_ClassifiedByStatusAmended ==
    /\ ReturnedOnResponse =>
          /\ Is200(LastAttempt) => DecodedLast
          /\ OtherStatus(LastAttempt) => StatusErrorLast
          /\ Is429(LastAttempt) => (Len(trace) = 4 /\ StatusErrorLast)
    /\ InAPICall =>
          \A k \in 1..(Len(trace) - 1) :
              trace[k].netErr = Nil => Is429(trace[k])
    /\ (InAPICall /\ trace # <<>> /\ Is429(LastAttempt) /\ Len(trace) < 4) =>
          pc \in {"backoff", "retry"}

\* The first response has status 201: LookupLead has returned the error
\* carrying that status, without decoding and without retrying.
C25_Witness ==
    /\ ReturnedOnResponse
    /\ Len(trace) = 1
    /\ LastAttempt.StatusCode = 201
    /\ lookupRet.resp = Nil
    /\ lookupRet.err = Ptr("API returned status 201")
    /\ sleeps = <<>>

(***************************************************************************)
(* A lookup that reports a match without a record.                         *)
(***************************************************************************)
FoundWithoutLead ==
    LookupOK /\ Deref(lookupRet.resp).Found /\ Existing = Nil

\* C26: when the lookup succeeds with Found = true and no lead, the absent
\* record counts as unequal to the input: ProcessLead makes exactly one update
\* attempt, makes no create attempt, does not yield SKIP and does not crash.
C26_FoundWithoutLeadUpdates ==
    (InCall /\ FoundWithoutLead) =>
        /\ pc # "panic"
        /\ \A k \in 1..Len(calls) : calls[k] # "CreateLead"
        /\ Cardinality({k \in 1..Len(calls) : calls[k] = "UpdateLead"})
              = (IF pc = "decide" THEN 0 ELSE 1)
        /\ Returned =>
              /\ Deref(result).Action \in {"UPDATE", "UPDATE_ERROR"}
              /\ err = Nil

C26_Witness ==
    /\ Returned
    /\ FoundWithoutLead
    /\ apiClient = "APIClientAdapter"
    /\ calls = <<"LookupLead", "UpdateLead">>
    /\ Deref(result).Action = "UPDATE"

(***************************************************************************)
(* The order of the work of a batch.                                       *)
(***************************************************************************)
\* A step that starts a client operation: a call of LookupLead, CreateLead
\* or UpdateLead, or an HTTP attempt.
ClientOperationStarts ==
    \/ Len(calls') > Len(calls)
    \/ (pc = "loop" /\ pc' = "lookup")
    \/ Len(trace') > Len(trace)

\* C27: the batch loop is strictly sequential in input order: a client
\* operation starts only for the lead the loop is at, when the outcomes of all
\* leads before it have been tallied; the loop moves on only by tallying the
\* outcome of the lead it is at; and while a lookup backs off (sleeps or
\* retries) the loop stays at its lead and nothing else is called or tallied.
C27_StrictlySequential ==
    [][ /\ ClientOperationStarts =>
              /\ i' \in 1..Len(leads)
              /\ Len(outcomes') = i' - 1
              /\ \A k \in 1..Len(outcomes') : outcomes'[k].k = k
              /\ i' = i
        /\ i' # i =>
              /\ pc = "tally"
              /\ i' = i + 1
              /\ outcomes' = Append(outcomes, outcomes'[i])
              /\ outcomes'[i].k = i
              /\ calls' = calls /\ trace' = trace
        /\ pc \in {"backoff", "retry"} =>
              /\ i' = i
              /\ outcomes' = outcomes
              /\ calls' = calls
              /\ result' = result
              /\ <<createCount', updateCount', skipCount', errorCount'>>
                    = <<createCount, updateCount, skipCount, errorCount>> ]_vars

\* The second lead's lookup is backing off after the first lead's outcome was
\* tallied, the first lead's lookup having backed off too.
C27_Witness ==
    /\ i = 2
    /\ pc = "retry"
    /\ Len(sleeps) >= 2
    /\ Len(outcomes) = 1
    /\ outcomes[1].k = 1
    /\ outcomes[1].Action \in {"CREATE", "UPDATE", "SKIP", "API_ERROR"}

(***************************************************************************)
(* The client calls of one ProcessLead call.                               *)
(***************************************************************************)
\* The number of calls of the operation op in the sequence cs.
CallCount(cs, op) == Cardinality({ k \in 1..Len(cs) : cs[k] = op })

\* The calls ProcessLead may have made: none, LookupLead alone, or LookupLead
\* followed by one mutation.
LegalCalls(cs) ==
    /\ CallCount(cs, "LookupLead") <= 1
    /\ CallCount(cs, "CreateLead") + CallCount(cs, "UpdateLead") <= 1
    /\ \A k \in 1..Len(cs) :
          cs[k] \in {"CreateLead", "UpdateLead"} =>
              (k = 2 /\ cs[1] = "LookupLead")

\* C28: a call of ProcessLead calls LookupLead at most once and at most one of
\* CreateLead and UpdateLead, at most once; the mutation is called only after
\* the LookupLead of that call has returned without error; and after a
\* CREATE_ERROR or UPDATE_ERROR nothing more is called for the lead.
C28_AtMostOneLookupOneMutation ==
    /\ [](/\ LegalCalls(calls)
          /\ \A k \in 1..Len(outcomes) : LegalCalls(outcomes[k].calls)
          /\ (InCall /\ Len(calls) = 2) => lookupRet.err = Nil)
    /\ [][ /\ Len(calls') > Len(calls) =>
                /\ pc = "decide"
                /\ lookupRet.err = Nil
                /\ calls = <<"LookupLead">>
          /\ (pc = "tally" /\ Deref(result).Action \in {"CREATE_ERROR", "UPDATE_ERROR"}) =>
                /\ outcomes'[i].calls = calls
                /\ Len(outcomes'[i].calls) = 2
                /\ outcomes'[i].Action = Deref(result).Action
                /\ i' = i + 1 ]_vars

\* A failed update after one lookup, with nothing called after the failure.
C28_Witness ==
    /\ Len(outcomes) >= 1
    /\ outcomes[1].Action = "UPDATE_ERROR"
    /\ outcomes[1].calls = <<"LookupLead", "UpdateLead">>
    /\ i = 2
    /\ pc = "loop"

(***************************************************************************)
(* The mutations of the production client.                                 *)
(***************************************************************************)
\* C29: with the production client CreateLead and UpdateLead issue no HTTP
\* request, do not sleep or retry and never return an error; so the outcomes
\* CREATE_ERROR and UPDATE_ERROR are never produced, and every lead whose
\* lookup has returned without error ends in CREATE, UPDATE or SKIP.
C29_ProductionMutationsNeverFail ==
    /\ [](apiClient = "APIClientAdapter" =>
            /\ pc # "panic"
            /\ \A k \in 1..Len(outcomes) :
                  outcomes[k].Action \notin {"CREATE_ERROR", "UPDATE_ERROR"}
            /\ (Returned /\ calls # <<>> /\ lookupRet.err = Nil) =>
                  Deref(result).Action \in {"CREATE", "UPDATE", "SKIP"}
            /\ (Returned /\ Len(calls) = 2) =>
                  /\ mutationRet.err = Nil
                  /\ mutationRet.lead # Nil
                  /\ Deref(result).Action \in {"CREATE", "UPDATE"})
    /\ [][(apiClient = "APIClientAdapter" /\ pc \in {"create", "update"}) =>
            /\ trace' = trace
            /\ sleeps' = sleeps
            /\ attempt' = attempt
            /\ pc' = "tally"]_vars

\* A production run has created a lead read from the file: the one HTTP
\* attempt on record is the lookup's.
C29_Witness ==
    /\ apiClient = "APIClientAdapter"
    /\ Returned
    /\ calls = <<"LookupLead", "CreateLead">>
    /\ Len(trace) = 1
    /\ Deref(result).Action = "CREATE"
    /\ Deref(mutationRet.lead).ID = "generated-id"

(***************************************************************************)
(* Termination.                                                            *)
(***************************************************************************)
\* LookupLead has been called for lead k and has not returned.
InLookup(k) == i = k /\ pc \in {"lookup", "backoff", "retry"}

\* ProcessLead has been called for lead k and has not returned.
InProcessLead(k) ==
    i = k /\ pc \in {"lookup", "backoff", "retry", "decide", "create", "update"}

\* C30: provided every HTTP attempt returns, every LookupLead call eventually
\* returns, every ProcessLead call eventually reaches a terminal outcome, and
\* a batch over any sequence of leads that was read eventually prints its
\* summary, whatever the remote system answers (unbroken 429s included).
C30_EverythingTerminates ==
    /\ \A k \in 1..MaxRows :
          /\ InLookup(k) ~> (i = k /\ pc = "decide")
          /\ InProcessLead(k) ~> (i = k /\ pc = "tally" /\ result # Nil)
    /\ (pc = "loop") ~> (pc = "done" /\ summary # Nil)
    /\ <>[](pc \in {"done", "exit"})

\* The batch has printed its summary although every attempt of its last
\* lead's lookup was answered with 429.
C30_Witness ==
    /\ pc = "done"
    /\ summary # Nil
    /\ Len(leads) >= 1
    /\ Len(trace) = maxRetries + 1
    /\ \A k \in 1..Len(trace) :
          trace[k].netErr = Nil /\ trace[k].StatusCode = StatusTooManyRequests
    /\ outcomes[Len(leads)].Action = "API_ERROR"

(***************************************************************************)
(* The end of the retry loop of handleRateLimit.                           *)
(***************************************************************************)
\* Every HTTP attempt on record was answered with 429.
Unbroken429 ==
    \A k \in 1..Len(trace) :
        trace[k].netErr = Nil /\ trace[k].StatusCode = StatusTooManyRequests

\* C31: the retry loop of handleRateLimit never falls through: the loop head
\* is never reached with the retries used up, the third retry returns from
\* inside the loop whatever its request gives (transport error, 200, 429,
\* other status), no lookup returns "max retries exceeded for rate limiting",
\* and a sequence of 429s that uses up the retries is reported as
\* "API returned status 429 after 3 retries".
C31_RetryLoopNeverFallsThrough ==
    /\ [](/\ pc = "backoff" => attempt < maxRetries
          /\ pc = "retry" => attempt < maxRetries
          /\ lookupRet.err # Ptr("max retries exceeded for rate limiting")
          /\ (pc = "decide" /\ Len(trace) = maxRetries + 1 /\ Unbroken429) =>
                /\ lookupRet.resp = Nil
                /\ lookupRet.err = Ptr("API returned status 429 after 3 retries"))
    /\ [][(pc = "retry" /\ attempt = maxRetries - 1) =>
            /\ pc' = "decide"
            /\ lookupRet'.err # Nil \/ trace'[Len(trace')].StatusCode = StatusOK]_vars

\* The lookup has just returned after 429 on the first request and on all
\* three retries.
C31_Witness ==
    /\ pc = "decide"
    /\ attempt = maxRetries - 1
    /\ Len(sleeps) = maxRetries
    /\ Len(trace) = maxRetries + 1
    /\ Unbroken429
    /\ lookupRet.err = Ptr("API returned status 429 after 3 retries")

====
